---- MODULE Spec2Model ----
(***************************************************************************)
(* Door-schedule extraction (extract_json.py, app.py).                     *)
(*                                                                         *)
(* A Python str is a sequence of one-character strings, so that splitting, *)
(* stripping, searching and the regular expressions of the source are      *)
(* computed character by character.  None is the one-element sequence      *)
(* <<"None">>, a non-string object (a truthy int) is <<"int">>; neither is *)
(* a str, since their element is not a single character.                   *)
(***************************************************************************)
EXTENDS Integers, Sequences, FiniteSets, TLC

VARIABLES pc, arg, ret, pdf, page_num, table_idx, doors, all_doors

vars == <<pc, arg, ret, pdf, page_num, table_idx, doors, all_doors>>

----------------------------------------------------------------------------
(* Python values *)

None == <<"None">>
NonText == <<"int">>
Empty == <<>>

Falsy(x) == x = None \/ x = Empty

(* Characters.  A cell text is a text over Latin-1 (U+0000..U+00FF), the   *)
(* characters a string of this module can hold; the classes below are the  *)
(* classes of Python 3 restricted to it.                                   *)

(* str.isspace, the class of \s, str.strip and str.split: space, newline,  *)
(* tab, carriage return, form feed, then U+000B, U+001C..U+001F, U+0085    *)
(* and U+00A0                                                              *)
Whitespace ==
    {" ", "\n", "\t", "\r", "\f",
     "", "", "", "", "",
     "", " "}

(* the class of \d in a regular expression *)
Digit == {"0", "1", "2", "3", "4", "5", "6", "7", "8", "9"}

(* the characters str.isdigit accepts: \d and the superscript digits *)
DigitChar == Digit \cup {"²", "³", "¹"}

(* the class [A-Z] of a regular expression *)
Upper ==
    {"A", "B", "C", "D", "E", "F", "G", "H", "I", "J", "K", "L", "M",
     "N", "O", "P", "Q", "R", "S", "T", "U", "V", "W", "X", "Y", "Z"}

(* U+0178, the upper case of U+00FF, which no string of this module can *)
(* hold: a name stands for the character                                *)
Y_DIAERESIS == <<"U+0178">>

(* str.upper: the characters it changes and, at the same position, what *)
(* it changes each of them into                                         *)
LowerSeq ==
    <<"a", "b", "c", "d", "e", "f", "g", "h", "i", "j", "k", "l", "m", "n",
      "o", "p", "q", "r", "s", "t", "u", "v", "w", "x", "y", "z", "µ", "ß",
      "à", "á", "â", "ã", "ä", "å", "æ", "ç", "è", "é", "ê", "ë", "ì", "í",
      "î", "ï", "ð", "ñ", "ò", "ó", "ô", "õ", "ö", "ø", "ù", "ú", "û", "ü",
      "ý", "þ", "ÿ">>
UpperSeq ==
    <<<<"A">>, <<"B">>, <<"C">>, <<"D">>, <<"E">>, <<"F">>, <<"G">>,
      <<"H">>, <<"I">>, <<"J">>, <<"K">>, <<"L">>, <<"M">>, <<"N">>,
      <<"O">>, <<"P">>, <<"Q">>, <<"R">>, <<"S">>, <<"T">>, <<"U">>,
      <<"V">>, <<"W">>, <<"X">>, <<"Y">>, <<"Z">>, <<"Μ">>, <<"S", "S">>,
      <<"À">>, <<"Á">>, <<"Â">>, <<"Ã">>, <<"Ä">>, <<"Å">>, <<"Æ">>,
      <<"Ç">>, <<"È">>, <<"É">>, <<"Ê">>, <<"Ë">>, <<"Ì">>, <<"Í">>,
      <<"Î">>, <<"Ï">>, <<"Ð">>, <<"Ñ">>, <<"Ò">>, <<"Ó">>, <<"Ô">>,
      <<"Õ">>, <<"Ö">>, <<"Ø">>, <<"Ù">>, <<"Ú">>, <<"Û">>, <<"Ü">>,
      <<"Ý">>, <<"Þ">>, Y_DIAERESIS>>
Lower == {LowerSeq[i] : i \in DOMAIN LowerSeq}

SP == <<" ">>
NL == <<"\n">>
SLASH == <<"/">>

----------------------------------------------------------------------------
(* str methods *)

(* s[i-1:] of Python, 1-based: the suffix that starts at position i *)
From(s, i) == IF i > Len(s) THEN <<>> ELSE SubSeq(s, i, Len(s))

(* s[i-1:].startswith(sub) *)
At(s, i, sub) ==
    /\ i >= 1
    /\ i + Len(sub) - 1 <= Len(s)
    /\ SubSeq(s, i, i + Len(sub) - 1) = sub

startswith(s, sub) == At(s, 1, sub)

(* sub in s *)
Contains(s, sub) == \E i \in 1..(Len(s) + 1) : At(s, i, sub)

RECURSIVE CountFrom(_, _, _)
CountFrom(s, sub, i) ==
    IF i + Len(sub) - 1 > Len(s) THEN 0
    ELSE IF At(s, i, sub) THEN 1 + CountFrom(s, sub, i + Len(sub))
    ELSE CountFrom(s, sub, i + 1)

(* s.count(sub): non-overlapping occurrences, sub non-empty *)
count(s, sub) == CountFrom(s, sub, 1)

RECURSIVE lstrip(_)
lstrip(s) ==
    IF s = <<>> \/ Head(s) \notin Whitespace THEN s ELSE lstrip(Tail(s))

RECURSIVE rstrip(_)
rstrip(s) ==
    IF s = <<>> \/ s[Len(s)] \notin Whitespace THEN s
    ELSE rstrip(SubSeq(s, 1, Len(s) - 1))

strip(s) == rstrip(lstrip(s))

(* position of the first character of s at or after i that is in set, *)
(* Len(s) + 1 when there is none                                        *)
RECURSIVE FirstIn(_, _, _)
FirstIn(s, set, i) ==
    IF i > Len(s) THEN Len(s) + 1
    ELSE IF s[i] \in set THEN i
    ELSE FirstIn(s, set, i + 1)

(* s.split(): maximal runs of non-whitespace *)
RECURSIVE split(_)
split(s) ==
    LET t == lstrip(s)
        n == FirstIn(t, Whitespace, 1)
    IN  IF t = <<>> THEN <<>>
        ELSE <<SubSeq(t, 1, n - 1)>> \o split(From(t, n))

(* s.split("\n"): pieces between newlines, empty pieces kept *)
RECURSIVE split_nl(_)
split_nl(s) ==
    LET n == FirstIn(s, {"\n"}, 1)
    IN  IF n > Len(s) THEN <<s>>
        ELSE <<SubSeq(s, 1, n - 1)>> \o split_nl(From(s, n + 1))

(* " ".join(parts) *)
RECURSIVE join(_)
join(parts) ==
    IF parts = <<>> THEN <<>>
    ELSE IF Len(parts) = 1 THEN parts[1]
    ELSE parts[1] \o SP \o join(Tail(parts))

(* c.upper() of one character: a text of one or two characters *)
UpperChar(c) ==
    IF c \in Lower
    THEN UpperSeq[CHOOSE i \in DOMAIN LowerSeq : LowerSeq[i] = c]
    ELSE <<c>>

(* s.upper() *)
RECURSIVE upper(_)
upper(s) == IF s = <<>> THEN <<>> ELSE UpperChar(Head(s)) \o upper(Tail(s))

(* s.isdigit() *)
isdigit(s) == s # <<>> /\ \A i \in DOMAIN s : s[i] \in DigitChar

(* re.search(r"[A-Z]", s) *)
HasUpper(s) == \E i \in DOMAIN s : s[i] \in Upper

(* seq.count(x) of a list *)
ListCount(seq, x) == Cardinality({i \in DOMAIN seq : seq[i] = x})

(* [f(l) for l in seq if keep] building blocks *)
MapStrip(seq) == [i \in DOMAIN seq |-> strip(seq[i])]
NonEmptyStr(s) == s # <<>>

(* [l.strip() for l in text.split("\n") if l.strip()] *)
StrippedLines(text) == SelectSeq(MapStrip(split_nl(text)), NonEmptyStr)

----------------------------------------------------------------------------
(* Regular expressions *)

(* last position of the maximal run of characters of set starting at i; *)
(* i - 1 when s[i] is not in set                                         *)
RECURSIVE RunEnd(_, _, _)
RunEnd(s, set, i) ==
    IF i <= Len(s) /\ s[i] \in set THEN RunEnd(s, set, i + 1) ELSE i - 1

W_X == <<"(", "W", ")", "x">>
H_ == <<"(", "H", ")">>

(* \d+\(W\)x\d+\(H\) anchored at position i: the position of the last     *)
(* matched character, 0 when there is no match.  \d+ is followed by "(", *)
(* so only the maximal digit run can match.                               *)
DimEndAt(s, i) ==
    LET a == RunEnd(s, Digit, i)
        b == RunEnd(s, Digit, a + 5)
    IN  IF a >= i /\ At(s, a + 1, W_X) /\ b >= a + 5 /\ At(s, b + 1, H_)
        THEN b + 2 + 1
        ELSE 0

(* start of the leftmost match of \d+\(W\)x\d+\(H\) at or after i, 0 if none *)
RECURSIVE DimSearchFrom(_, _)
DimSearchFrom(s, i) ==
    IF i > Len(s) THEN 0
    ELSE IF DimEndAt(s, i) > 0 THEN i
    ELSE DimSearchFrom(s, i + 1)

(* bool(re.search(r"\d+\(W\)x\d+\(H\)", s)) *)
HasDim(s) == DimSearchFrom(s, 1) > 0

(* re.search(r"\d+\(W\)x\d+\(H\)", s).group(0), s holding a match *)
FirstDim(s) ==
    LET i == DimSearchFrom(s, 1) IN SubSeq(s, i, DimEndAt(s, i))

(* re.findall(r"\d+\(W\)x\d+\(H\)", s) from position i on *)
RECURSIVE FindAllDimFrom(_, _)
FindAllDimFrom(s, i) ==
    LET j == DimSearchFrom(s, i)
    IN  IF j = 0 THEN <<>>
        ELSE <<SubSeq(s, j, DimEndAt(s, j))>> \o FindAllDimFrom(s, DimEndAt(s, j) + 1)

FindAllDim(s) == FindAllDimFrom(s, 1)

(* re.match(r"^\d+\(W\)x\d+\(H\)$", s), s without a trailing newline *)
IsDimOnly(s) == s # <<>> /\ DimEndAt(s, 1) = Len(s)

(* re.match(r"^\d+[A-Z]+$", s), s a token *)
IsDigitsLetters(s) ==
    LET a == RunEnd(s, Digit, 1)
        b == RunEnd(s, Upper, a + 1)
    IN  a >= 1 /\ b >= a + 1 /\ b = Len(s)

(* part.isdigit() or re.match(r"^\d+[A-Z]+$", part) *)
IsVariantToken(part) == isdigit(part) \/ IsDigitsLetters(part)

(* The variant_match of split_multi_door_column on part + " ": group 1,   *)
(* digits then uppercase letters, which must be followed by whitespace,  *)
(* by an opening parenthesis or by the end; None when there is no match. *)
(* Backtracking cannot help: a shorter run is followed by a digit or a   *)
(* letter.                                                               *)
VariantPrefix(part) ==
    LET a == RunEnd(part, Digit, 1)
        b == RunEnd(part, Upper, a + 1)
    IN  IF a >= 1 /\ (b = Len(part) \/ part[b + 1] = "(")
        THEN SubSeq(part, 1, b)
        ELSE None

----------------------------------------------------------------------------
(* clean_text *)

(* re.sub(r"\s+", " ", s): each maximal whitespace run becomes one space *)
RECURSIVE CollapseWs(_)
CollapseWs(s) ==
    IF s = <<>> THEN <<>>
    ELSE IF Head(s) \in Whitespace
         THEN SP \o CollapseWs(From(s, RunEnd(s, Whitespace, 1) + 1))
         ELSE <<Head(s)>> \o CollapseWs(Tail(s))

(* clean_text without the final strip() *)
clean_text_unstripped(text) ==
    IF Falsy(text) THEN <<>> ELSE CollapseWs(text)

clean_text(text) ==
    IF Falsy(text) THEN <<>> ELSE strip(CollapseWs(text))

----------------------------------------------------------------------------
(* String literals of the source *)

S_000W == <<"0", "0", "0", "(", "W", ")">>
S_000WX == <<"0", "0", "0", "(", "W", ")", "x">>
S_WX == <<"(", "W", ")", "x">>
S_WXH == <<"(", "W", ")", "x", "(", "H", ")">>
S_PRECINCT == <<"P", "R", "E", "C", "I", "N", "C", "T">>
S_DRAWING == <<"D", "R", "A", "W", "I", "N", "G">>
S_PROJECT == <<"P", "R", "O", "J", "E", "C", "T">>
S_TENDER == <<"T", "E", "N", "D", "E", "R">>
S_TITLE == <<"T", "I", "T", "L", "E">>
S_NAME == <<"N", "A", "M", "E">>
S_NO == <<"N", "O">>
S_BY == <<"B", "Y">>
S_DOOR == <<"D", "O", "O", "R">>
S_TYPE == <<"T", "Y", "P", "E">>
S_FIRE == <<"F", "I", "R", "E">>
S_RATING == <<"R", "A", "T", "I", "N", "G">>
S_FD1 == <<"F", "D", "1">>

S_TENDER_DRAWING == S_TENDER \o SP \o S_DRAWING
S_DRAWING_TITLE == S_DRAWING \o SP \o S_TITLE
S_DOOR_TYPE == S_DOOR \o SP \o S_TYPE
S_FIRE_RATING_DASH == S_FIRE \o <<"-">> \o S_RATING
S_FIRE_RATING == S_FIRE \o SP \o S_RATING
S_DESCRIPTION == <<"D", "E", "S", "C", "R", "I", "P", "T", "I", "O", "N">>
S_LOCATION == <<"L", "O", "C", "A", "T", "I", "O", "N">>
S_REMARKS == <<"R", "E", "M", "A", "R", "K", "S">>
S_ELEVATION == <<"E", "L", "E", "V", "A", "T", "I", "O", "N">>
S_FD1_FD1 == S_FD1 \o SP \o S_FD1

(* invalid_patterns of is_valid_door_entry, in the order of the source *)
invalid_patterns ==
    << S_TENDER_DRAWING,
       S_DRAWING_TITLE,
       S_PRECINCT \o SP \o S_NAME,
       S_PROJECT \o SP \o S_TITLE,
       <<"L", "O", "T">> \o SP \o S_NO,
       <<"M", "U", "K", "I", "M">> \o SP \o S_NO,
       <<"J", "O", "B">> \o SP \o S_TITLE,
       <<"D", "R", "A", "W", "N">> \o SP \o S_BY,
       <<"C", "H", "E", "C", "K", "E", "D">> \o SP \o S_BY,
       <<"S", "C", "A", "L", "E">>,
       <<"D", "A", "T", "E">>,
       <<"R", "E", "V">>,
       S_DESCRIPTION >>

----------------------------------------------------------------------------
(* parse_door_type *)

(* the first part of code_parts that holds a dimension, "" when none *)
RECURSIVE EmbeddedDimension(_)
EmbeddedDimension(code_parts) ==
    IF code_parts = <<>> THEN <<>>
    ELSE IF HasDim(Head(code_parts)) THEN Head(code_parts)
    ELSE EmbeddedDimension(Tail(code_parts))

(* ParseLine without the variant embedded in a dimension line: such a *)
(* line is taken whole as the dimension                               *)
ParseLine_NoEmbeddedVariant(line, st) ==
    LET parts == split(line)
    IN  IF HasDim(line)
        THEN IF st.dimensions = <<>>
             THEN [st EXCEPT !.dimensions = line]
             ELSE st
        ELSE IF parts # <<>> /\ IsVariantToken(parts[1]) /\ st.variant = <<>>
             THEN [st EXCEPT !.variant = parts[1]]
             ELSE st

(* one pass of the loop over lines[1:]; st holds dimensions and variant *)
ParseLine(line, st) ==
    LET parts == split(line)
    IN  IF HasDim(line)
        THEN IF Len(parts) >= 2
             THEN IF IsVariantToken(parts[1])
                  THEN LET rest == join(Tail(parts))
                       IN  [dimensions |-> IF HasDim(rest) THEN FirstDim(rest) ELSE rest,
                            variant |-> parts[1]]
                  ELSE IF st.dimensions = <<>>
                       THEN [st EXCEPT !.dimensions = line]
                       ELSE st
             ELSE IF st.dimensions = <<>>
                  THEN [st EXCEPT !.dimensions = line]
                  ELSE st
        ELSE IF parts # <<>> /\ IsVariantToken(parts[1]) /\ st.variant = <<>>
             THEN [st EXCEPT !.variant = parts[1]]
             ELSE st

RECURSIVE ParseLines(_, _)
ParseLines(lines, st) ==
    IF lines = <<>> THEN st
    ELSE ParseLines(Tail(lines), ParseLine(Head(lines), st))

(* the rejection of the first line: no uppercase letter, a split-off *)
(* dimension, or a leaked header                                       *)
RejectedCode(code) ==
    \/ ~HasUpper(code)
    \/ startswith(code, S_000W)
    \/ Contains(code, S_PRECINCT)
    \/ Contains(code, S_DRAWING)
    \/ Contains(code, S_PROJECT)

(* returns <<final_code, dimensions>>, <<None, None>> when rejected *)
parse_door_type(door_type_text) ==
    IF Falsy(door_type_text) THEN <<None, None>>
    ELSE LET lines == StrippedLines(strip(door_type_text))
         IN  IF Len(lines) = 0 THEN <<None, None>>
             ELSE IF RejectedCode(lines[1]) THEN <<None, None>>
             ELSE LET code_parts == split(lines[1])
                      clean_code == code_parts[1]
                      st == ParseLines(Tail(lines),
                                       [dimensions |-> EmbeddedDimension(code_parts),
                                        variant |-> <<>>])
                      final_code == IF st.variant # <<>>
                                    THEN clean_code \o SLASH \o st.variant
                                    ELSE clean_code
                  IN  <<final_code, st.dimensions>>

----------------------------------------------------------------------------
(* split_multi_door_column *)

Door(door_type, dimensions, fire_rating, description, location, remarks) ==
    [door_type |-> door_type, dimensions |-> dimensions,
     fire_rating |-> fire_rating, description |-> description,
     location |-> location, remarks |-> remarks]

(* all_tokens: the tokens of lines[1:], in order *)
RECURSIVE AllTokens(_)
AllTokens(lines) ==
    IF lines = <<>> THEN <<>> ELSE split(Head(lines)) \o AllTokens(Tail(lines))

(* the repair of a dimension that lost its leading digit: the first token *)
(* equal to dim that follows a one-digit token takes that digit back      *)
RepairDimension(dim, all_tokens) ==
    LET hits == {j \in 2..Len(all_tokens) :
                    /\ all_tokens[j] = dim
                    /\ isdigit(all_tokens[j - 1])
                    /\ Len(all_tokens[j - 1]) = 1}
    IN  IF startswith(dim, S_000WX) /\ hits # {}
        THEN all_tokens[(CHOOSE j \in hits : \A k \in hits : j <= k) - 1] \o dim
        ELSE dim

(* a variant is kept unless it is a number of three or more digits *)
KeepVariant(variant) == Len(variant) <= 2 \/ ~isdigit(variant)

(* the inner loop of step 2 over the parts of a dedicated variant line; *)
(* it leaves the loop once num_doors variants are collected              *)
RECURSIVE DedicatedParts(_, _, _)
DedicatedParts(parts, all_variants, num_doors) ==
    IF parts = <<>> THEN all_variants
    ELSE LET part == Head(parts)
             variant == VariantPrefix(part)
         IN  IF part[1] \in DigitChar /\ variant # None /\ KeepVariant(variant)
             THEN IF Len(all_variants) + 1 >= num_doors
                  THEN Append(all_variants, variant)
                  ELSE DedicatedParts(Tail(parts), Append(all_variants, variant),
                                      num_doors)
             ELSE DedicatedParts(Tail(parts), all_variants, num_doors)

AnyPartHasDim(parts) == \E i \in DOMAIN parts : HasDim(parts[i])

(* step 2: the loop over lines[1:] looking for dedicated variant lines *)
RECURSIVE DedicatedLines(_, _, _)
DedicatedLines(lines, all_variants, num_doors) ==
    IF lines = <<>> THEN all_variants
    ELSE LET parts == split(Head(lines))
             got == IF ~AnyPartHasDim(parts) /\ Len(parts) >= num_doors
                    THEN DedicatedParts(parts, all_variants, num_doors)
                    ELSE all_variants
         IN  IF Len(got) >= num_doors THEN got
             ELSE DedicatedLines(Tail(lines), got, num_doors)

InSeq(x, seq) == \E i \in DOMAIN seq : seq[i] = x

(* the inner loop of step 3 over the parts of one line; its break leaves *)
(* this line only                                                         *)
RECURSIVE MixedParts(_, _, _)
MixedParts(parts, all_variants, num_doors) ==
    IF parts = <<>> THEN all_variants
    ELSE LET part == Head(parts)
             variant == VariantPrefix(part)
         IN  IF /\ ~Contains(part, S_WXH)
                /\ part[1] \in DigitChar
                /\ variant # None
                /\ KeepVariant(variant)
                /\ ~InSeq(variant, all_variants)
             THEN IF Len(all_variants) + 1 >= num_doors
                  THEN Append(all_variants, variant)
                  ELSE MixedParts(Tail(parts), Append(all_variants, variant),
                                  num_doors)
             ELSE MixedParts(Tail(parts), all_variants, num_doors)

(* step 3: the loop over lines[1:], every line is visited *)
RECURSIVE MixedLines(_, _, _)
MixedLines(lines, all_variants, num_doors) ==
    IF lines = <<>> THEN all_variants
    ELSE MixedLines(Tail(lines),
                    MixedParts(split(Head(lines)), all_variants, num_doors),
                    num_doors)

(* all_variants after steps 2 and 3 *)
CollectVariants(lines, num_doors) ==
    LET dedicated == DedicatedLines(Tail(lines), <<>>, num_doors)
    IN  IF Len(dedicated) < num_doors
        THEN MixedLines(Tail(lines), dedicated, num_doors)
        ELSE dedicated

(* all_dimensions after the repair *)
CollectDimensions(door_type_text, lines) ==
    LET found == FindAllDim(door_type_text)
        all_tokens == AllTokens(Tail(lines))
    IN  [i \in DOMAIN found |-> RepairDimension(found[i], all_tokens)]

(* re.match of the legacy variant line: digits, one letter, whitespace, *)
(* digits, one letter, on a stripped line                                *)
IsLegacyVariantLine(line) ==
    LET a == RunEnd(line, Digit, 1)
        w == RunEnd(line, Whitespace, a + 2)
        b == RunEnd(line, Digit, w + 1)
    IN  /\ a >= 1
        /\ a + 1 <= Len(line) /\ line[a + 1] \in Upper
        /\ w >= a + 2
        /\ b >= w + 1
        /\ b + 1 = Len(line) /\ line[b + 1] \in Upper

RECURSIVE LegacyScan(_, _)
LegacyScan(lines, st) ==
    IF lines = <<>> THEN st
    ELSE LET line == Head(lines)
         IN  LegacyScan(Tail(lines),
                 IF Contains(line, S_WX)
                 THEN [st EXCEPT !.dimensions_list = @ \o FindAllDim(line)]
                 ELSE IF IsLegacyVariantLine(line)
                      THEN [st EXCEPT !.variants_list = split(line)]
                      ELSE st)

Max(a, b) == IF a >= b THEN a ELSE b

(* the fallback after the main algorithm left doors empty *)
LegacyDoors(door_type_text, fire_rating, description, location, remarks) ==
    LET st == LegacyScan(StrippedLines(door_type_text),
                         [dimensions_list |-> <<>>, variants_list |-> <<>>])
        num_doors == Max(Max(Len(st.dimensions_list), Len(st.variants_list)), 2)
    IN  [i \in 1..num_doors |->
            Door(IF i <= Len(st.variants_list)
                 THEN S_FD1 \o SLASH \o st.variants_list[i]
                 ELSE S_FD1,
                 IF i <= Len(st.dimensions_list) THEN st.dimensions_list[i] ELSE <<>>,
                 fire_rating, description, location, remarks)]

(* the main algorithm, past the early returns *)
MainDoors(door_type_text, lines, base_code, num_doors, fire_rating, description, location, remarks) ==
    LET all_dimensions == CollectDimensions(door_type_text, lines)
        all_variants == CollectVariants(lines, num_doors)
    IN  [i \in 1..num_doors |->
            Door(IF i <= Len(all_variants) /\ all_variants[i] # <<>>
                 THEN base_code \o SLASH \o all_variants[i]
                 ELSE base_code,
                 IF i <= Len(all_dimensions) THEN all_dimensions[i] ELSE <<>>,
                 fire_rating, description, location, remarks)]

(* split_multi_door_column counting every token of the first line as a door *)
split_multi_door_column_AllParts(door_type_text, fire_rating, description, location, remarks) ==
    LET lines == StrippedLines(strip(door_type_text))
        first_line_parts == split(lines[1])
        base_code == first_line_parts[1]
        num_doors == Len(first_line_parts)
    IN  IF Len(lines) < 2 THEN <<>>
        ELSE IF first_line_parts = <<>> THEN <<>>
        ELSE IF num_doors < 2 THEN <<>>
        ELSE LET main_doors == MainDoors(door_type_text, lines, base_code, num_doors,
                                   fire_rating, description, location, remarks)
             IN  IF main_doors # <<>> THEN main_doors
                 ELSE IF Contains(door_type_text, S_FD1_FD1)
                      THEN LegacyDoors(door_type_text, fire_rating, description,
                                       location, remarks)
                      ELSE main_doors

split_multi_door_column(door_type_text, fire_rating, description, location, remarks) ==
    LET lines == StrippedLines(strip(door_type_text))
        first_line_parts == split(lines[1])
        base_code == first_line_parts[1]
        num_doors == ListCount(first_line_parts, base_code)
    IN  IF Len(lines) < 2 THEN <<>>
        ELSE IF first_line_parts = <<>> THEN <<>>
        ELSE IF num_doors < 2 THEN <<>>
        ELSE LET main_doors == MainDoors(door_type_text, lines, base_code, num_doors,
                                   fire_rating, description, location, remarks)
             IN  IF main_doors # <<>> THEN main_doors
                 ELSE IF Contains(door_type_text, S_FD1_FD1)
                      THEN LegacyDoors(door_type_text, fire_rating, description,
                                       location, remarks)
                      ELSE main_doors

----------------------------------------------------------------------------
(* is_valid_door_entry *)

(* is_valid_door_entry without the test for a bare dimension *)
is_valid_door_entry_NoDimensionFilter(door) ==
    LET door_type == strip(door.door_type)
    IN  /\ \A k \in DOMAIN invalid_patterns :
              ~Contains(upper(door_type), invalid_patterns[k])
        /\ HasUpper(door_type)

is_valid_door_entry(door) ==
    LET door_type == strip(door.door_type)
    IN  /\ \A k \in DOMAIN invalid_patterns :
              ~Contains(upper(door_type), invalid_patterns[k])
        /\ ~(startswith(door_type, S_000WX) \/ IsDimOnly(door_type))
        /\ HasUpper(door_type)

----------------------------------------------------------------------------
(* extract_doors_from_table                                                *)
(*                                                                         *)
(* A table is a sequence of rows, a row a sequence of cells; positions are *)
(* 1-based, so row index i of the source is position i + 1 and the label   *)
(* column 0 is position 1.  A row index of 0 stands for None.              *)

(* row and row[0]: the row has a truthy label cell *)
HasLabel(row) == row # <<>> /\ ~Falsy(row[1])

(* the scan for DOOR TYPE rows raises: a label cell that is no str, on *)
(* which row[0].strip() is called                                       *)
LabelRaises(table) ==
    \E i \in DOMAIN table : table[i] # <<>> /\ table[i][1] = NonText

(* door_type_row_indices, ascending *)
RECURSIVE DoorTypeRowsFrom(_, _)
DoorTypeRowsFrom(table, i) ==
    IF i > Len(table) THEN <<>>
    ELSE IF HasLabel(table[i]) /\ strip(table[i][1]) = S_DOOR_TYPE
         THEN <<i>> \o DoorTypeRowsFrom(table, i + 1)
         ELSE DoorTypeRowsFrom(table, i + 1)

door_type_row_indices(table) == DoorTypeRowsFrom(table, 1)

(* ScanLabels that does not stop at an ELEVATION row *)
RECURSIVE ScanLabels_PastElevation(_, _, _)
ScanLabels_PastElevation(table, i, sec) ==
    IF i >= sec.section_end THEN sec
    ELSE LET row == table[i]
             label == strip(row[1])
         IN  IF ~HasLabel(row) THEN ScanLabels_PastElevation(table, i + 1, sec)
             ELSE IF label = S_FIRE_RATING_DASH \/ label = S_FIRE_RATING
                  THEN ScanLabels_PastElevation(table, i + 1, [sec EXCEPT !.fire_rating_row_idx = i])
             ELSE IF label = S_DESCRIPTION
                  THEN ScanLabels_PastElevation(table, i + 1, [sec EXCEPT !.description_row_idx = i])
             ELSE IF label = S_LOCATION
                  THEN ScanLabels_PastElevation(table, i + 1, [sec EXCEPT !.location_row_idx = i])
             ELSE IF label = S_REMARKS
                  THEN ScanLabels_PastElevation(table, i + 1, [sec EXCEPT !.remarks_row_idx = i])
             ELSE ScanLabels_PastElevation(table, i + 1, sec)

(* the scan of the labels of a section from row i up to section_end *)
(* (exclusive); an ELEVATION row cuts the section and ends the scan  *)
RECURSIVE ScanLabels(_, _, _)
ScanLabels(table, i, sec) ==
    IF i >= sec.section_end THEN sec
    ELSE LET row == table[i]
             label == strip(row[1])
         IN  IF ~HasLabel(row) THEN ScanLabels(table, i + 1, sec)
             ELSE IF label = S_FIRE_RATING_DASH \/ label = S_FIRE_RATING
                  THEN ScanLabels(table, i + 1, [sec EXCEPT !.fire_rating_row_idx = i])
             ELSE IF label = S_DESCRIPTION
                  THEN ScanLabels(table, i + 1, [sec EXCEPT !.description_row_idx = i])
             ELSE IF label = S_LOCATION
                  THEN ScanLabels(table, i + 1, [sec EXCEPT !.location_row_idx = i])
             ELSE IF label = S_REMARKS
                  THEN ScanLabels(table, i + 1, [sec EXCEPT !.remarks_row_idx = i])
             ELSE IF label = S_ELEVATION
                  THEN [sec EXCEPT !.section_end = i]
             ELSE ScanLabels(table, i + 1, sec)

(* the section anchored at the section_idx-th DOOR TYPE row: its bounds *)
(* and its resolved field rows                                           *)
Section(table, section_idx) ==
    LET indices == door_type_row_indices(table)
        door_type_row_idx == indices[section_idx]
        section_end == IF section_idx + 1 <= Len(indices)
                       THEN indices[section_idx + 1]
                       ELSE Len(table) + 1
    IN  ScanLabels(table, door_type_row_idx,
                   [door_type_row_idx |-> door_type_row_idx,
                    section_end |-> section_end,
                    fire_rating_row_idx |-> 0,
                    description_row_idx |-> 0,
                    location_row_idx |-> 0,
                    remarks_row_idx |-> 0])

(* table[idx] if idx is not None else [] *)
FieldRow(table, idx) == IF idx = 0 THEN <<>> ELSE table[idx]

(* FieldText without clean_text: the raw cell *)
FieldText_Raw(row, col) ==
    IF col <= Len(row) /\ ~Falsy(row[col]) THEN row[col] ELSE <<>>

(* clean_text(row[col_idx]) if col_idx < len(row) and row[col_idx] else "" *)
FieldText(row, col) ==
    IF col <= Len(row) /\ ~Falsy(row[col]) THEN clean_text(row[col]) ELSE <<>>

(* next_text is a continuation fragment *)
IsContinuation(next_text) ==
    /\ ~Falsy(next_text)
    /\ strip(next_text) # <<>>
    /\ IsDimOnly(strip(next_text))

(* the look-ahead one column longer: next_col_idx < col_idx + 4 *)
RECURSIVE MergeFrom_LookAhead3(_, _, _, _)
MergeFrom_LookAhead3(door_type_row, door_type_text, col, next_col) ==
    IF ~(next_col <= Len(door_type_row) /\ next_col < col + 4) THEN door_type_text
    ELSE IF IsContinuation(door_type_row[next_col])
         THEN door_type_text \o SP \o door_type_row[next_col]
         ELSE MergeFrom_LookAhead3(door_type_row, door_type_text, col, next_col + 1)

(* the look-ahead over the next columns, next_col_idx < col_idx + 3 *)
RECURSIVE MergeFrom(_, _, _, _)
MergeFrom(door_type_row, door_type_text, col, next_col) ==
    IF ~(next_col <= Len(door_type_row) /\ next_col < col + 3) THEN door_type_text
    ELSE IF IsContinuation(door_type_row[next_col])
         THEN door_type_text \o SP \o door_type_row[next_col]
         ELSE MergeFrom(door_type_row, door_type_text, col, next_col + 1)

MergeContinuation(door_type_row, col) ==
    MergeFrom(door_type_row, door_type_row[col], col, col + 1)

(* SkippedColumn without the drawing-metadata test *)
SkippedColumn_EmptyOnly(door_type_text) ==
    \/ Falsy(door_type_text)
    \/ strip(door_type_text) = <<>>

(* the column is skipped before any parsing: empty, or drawing metadata *)
SkippedColumn(door_type_text) ==
    \/ Falsy(door_type_text)
    \/ strip(door_type_text) = <<>>
    \/ Contains(door_type_text, S_TENDER_DRAWING)
    \/ Contains(door_type_text, S_DRAWING_TITLE)

has_multiple_doors(door_type_text) ==
    LET words == split(door_type_text)
        first_word == IF words # <<>> THEN words[1] ELSE <<>>
    IN  \/ /\ first_word # <<>>
           /\ Contains(From(door_type_text, Len(first_word) + 1), first_word)
        \/ count(door_type_text, S_WX) > 1

(* the look-ahead reaches a cell that is no str before it finds a *)
(* continuation: next_text.strip() raises                          *)
RECURSIVE LookAheadRaises(_, _, _)
LookAheadRaises(door_type_row, col, next_col) ==
    IF ~(next_col <= Len(door_type_row) /\ next_col < col + 3) THEN FALSE
    ELSE IF door_type_row[next_col] = NonText THEN TRUE
    ELSE IF IsContinuation(door_type_row[next_col]) THEN FALSE
    ELSE LookAheadRaises(door_type_row, col, next_col + 1)

(* clean_text is called on a field cell that is no str *)
FieldRaises(row, col) == col <= Len(row) /\ row[col] = NonText

(* processing one column of a section raises: the door-type cell is no  *)
(* str, or the column is not skipped and the look-ahead raises, or a    *)
(* code was parsed and one of the four field cells is no str            *)
ColumnRaises(table, sec, col) ==
    LET door_type_row == table[sec.door_type_row_idx]
    IN  \/ door_type_row[col] = NonText
        \/ /\ ~SkippedColumn(door_type_row[col])
           /\ \/ LookAheadRaises(door_type_row, col, col + 1)
              \/ /\ ~Falsy(parse_door_type(MergeContinuation(door_type_row, col))[1])
                 /\ \/ FieldRaises(FieldRow(table, sec.fire_rating_row_idx), col)
                    \/ FieldRaises(FieldRow(table, sec.description_row_idx), col)
                    \/ FieldRaises(FieldRow(table, sec.location_row_idx), col)
                    \/ FieldRaises(FieldRow(table, sec.remarks_row_idx), col)

(* some cell of the table is no str *)
HasNonText(table) ==
    \E i \in DOMAIN table : \E j \in DOMAIN table[i] : table[i][j] = NonText

(* extract_doors_from_table raises on the table: only a call on a cell *)
(* that is no str fails, and only when the code reaches the cell       *)
Raises(table) ==
    /\ Len(table) >= 2
    /\ HasNonText(table)
    /\ \/ LabelRaises(table)
       \/ \E k \in DOMAIN door_type_row_indices(table) :
              \E col \in 2..Len(table[door_type_row_indices(table)[k]]) :
                  ColumnRaises(table, Section(table, k), col)

(* the doors one column of a section adds to the result *)
ColumnDoors(table, sec, col) ==
    LET door_type_row == table[sec.door_type_row_idx]
        door_type_text == MergeContinuation(door_type_row, col)
        parsed == parse_door_type(door_type_text)
        fire_rating == FieldText(FieldRow(table, sec.fire_rating_row_idx), col)
        description == FieldText(FieldRow(table, sec.description_row_idx), col)
        location == FieldText(FieldRow(table, sec.location_row_idx), col)
        remarks == FieldText(FieldRow(table, sec.remarks_row_idx), col)
    IN  IF SkippedColumn(door_type_row[col]) THEN <<>>
        ELSE IF Falsy(parsed[1]) THEN <<>>
        ELSE IF has_multiple_doors(door_type_text)
             THEN split_multi_door_column(door_type_text, fire_rating, description,
                                          location, remarks)
             ELSE <<Door(parsed[1], parsed[2], fire_rating, description,
                         location, remarks)>>

(* the loop over the data columns col .. len(door_type_row) - 1 *)
RECURSIVE ColumnsFrom(_, _, _)
ColumnsFrom(table, sec, col) ==
    IF col > Len(table[sec.door_type_row_idx]) THEN <<>>
    ELSE ColumnDoors(table, sec, col) \o ColumnsFrom(table, sec, col + 1)

(* the loop over the sections *)
RECURSIVE SectionsFrom(_, _)
SectionsFrom(table, section_idx) ==
    IF section_idx > Len(door_type_row_indices(table)) THEN <<>>
    ELSE ColumnsFrom(table, Section(table, section_idx), 2)
             \o SectionsFrom(table, section_idx + 1)

(* the doors of a table that does not raise *)
extract_doors_from_table(table) ==
    IF table = <<>> \/ Len(table) < 2 THEN <<>>
    ELSE SectionsFrom(table, 1)

(* the filter left out: every candidate is kept *)
valid_doors_Unfiltered(table_doors) == table_doors

(* [d for d in table_doors if is_valid_door_entry(d)] *)
valid_doors(table_doors) == SelectSeq(table_doors, is_valid_door_entry)

(* extend at the front instead of the back *)
extend_Front(list, items) == items \o list

(* list.extend(items) *)
extend(list, items) == list \o items

----------------------------------------------------------------------------
(* Post-processing of main and extract_from_pdf *)

(* s.replace(sub, ""): the occurrences of sub, left to right, removed *)
RECURSIVE remove(_, _)
remove(s, sub) ==
    IF s = <<>> THEN <<>>
    ELSE IF At(s, 1, sub) THEN remove(From(s, Len(sub) + 1), sub)
    ELSE <<Head(s)>> \o remove(Tail(s), sub)

(* the label text leaked into a field is removed *)
StripLabels(door) ==
    [door EXCEPT
        !.fire_rating = strip(remove(@, S_FIRE_RATING_DASH)),
        !.description = strip(remove(@, S_DESCRIPTION)),
        !.location = strip(remove(@, S_LOCATION)),
        !.remarks = strip(remove(@, S_REMARKS))]

(* main only: empty dimensions are taken from the door type when it holds some *)
BackFillDimensions(door) ==
    IF door.dimensions = <<>> /\ HasDim(door.door_type)
    THEN [door EXCEPT !.dimensions = FirstDim(door.door_type)]
    ELSE door

post_process(entry, door) ==
    IF entry = "main" THEN BackFillDimensions(StripLabels(door)) ELSE StripLabels(door)

----------------------------------------------------------------------------
(* Bounds *)

MaxTextLen == 4
MaxLines == 2
MaxRows == 4
MaxCols == 3
MaxPages == 2
MaxTables == 3

----------------------------------------------------------------------------
(* Tokens and lines the cell texts are built from *)

T_MD == <<"M", "D">>
T_FDM == <<"F", "D", "M">>
T_DB == <<"D", "B">>
T_md == <<"m", "d">>
T_1HR == <<"1", "-", "H", "R">>
T_RATED == <<"R", "A", "T", "E", "D">>
T_SEE == <<"S", "E", "E">>
T_APPROX == <<"A", "P", "P", "R", "O", "X">>
T_MIN == <<"(", "M", "I", "N">>
V_1 == <<"1">>
V_9 == <<"9">>
V_10 == <<"1", "0">>
V_21 == <<"2", "1">>
V_10S == <<"1", "0", "S">>
V_4A == <<"4", "A">>
D_1250 == <<"1", "2", "5", "0", "(", "W", ")", "x", "2", "2", "4", "0", "(", "H", ")">>
D_1000 == <<"1", "0", "0", "0", "(", "W", ")", "x", "2", "1", "9", "0", "(", "H", ")">>
D_2100 == <<"2", "1", "0", "0", "(", "W", ")", "x", "2", "1", "9", "0", "(", "H", ")">>
D_900 == <<"9", "0", "0", "(", "W", ")", "x", "2", "1", "9", "0", "(", "H", ")">>
D_000 == <<"0", "0", "0", "(", "W", ")", "x", "2", "1", "9", "0", "(", "H", ")">>

(* the text of a cell given as lines of tokens: tokens joined by a space, *)
(* lines by a newline                                                     *)
RECURSIVE JoinLines(_)
JoinLines(lines) ==
    IF lines = <<>> THEN <<>>
    ELSE IF Len(lines) = 1 THEN join(lines[1])
    ELSE join(lines[1]) \o NL \o JoinLines(Tail(lines))

SeqsUpTo(S, n) == UNION {[1..k -> S] : k \in 0..n}

----------------------------------------------------------------------------
(* SpecText: clean_text applied to a cell text, then to its own result     *)

TextAlphabet == {" ", "\n", "\t", "\r", "A", "1"}

TextInputs == UNION {[1..k -> TextAlphabet] : k \in 0..MaxTextLen} \cup {None}

Idle ==
    /\ pdf = <<>> /\ page_num = 0 /\ table_idx = 0
    /\ doors = <<>> /\ all_doors = <<>>

InitText ==
    /\ pc = "text"
    /\ arg \in TextInputs
    /\ ret = <<>>
    /\ Idle

CleanOnce ==
    /\ pc = "text"
    /\ ret' = <<clean_text(arg)>>
    /\ pc' = "cleaned"
    /\ UNCHANGED <<arg, pdf, page_num, table_idx, doors, all_doors>>

CleanAgain ==
    /\ pc = "cleaned"
    /\ ret' = Append(ret, clean_text(ret[1]))
    /\ pc' = "cleaned_twice"
    /\ UNCHANGED <<arg, pdf, page_num, table_idx, doors, all_doors>>

NextText == CleanOnce \/ CleanAgain

SpecText == InitText /\ [][NextText]_vars

(* no leading or trailing whitespace and no run of two whitespace characters *)
Normalized(s) ==
    /\ s # None
    /\ s # <<>> => (s[1] \notin Whitespace /\ s[Len(s)] \notin Whitespace)
    /\ \A i \in 1..(Len(s) - 1) : ~(s[i] \in Whitespace /\ s[i + 1] \in Whitespace)

(* C10: clean_text is idempotent, for every text and for empty or None    *)
(* input: cleaning the cleaned text gives the cleaned text again, and the *)
(* cleaned text has no leading or trailing whitespace and no run of two   *)
(* or more whitespace characters.                                         *)
C10_CleanTextIdempotent ==
    /\ pc \in {"cleaned", "cleaned_twice"} => Normalized(ret[1])
    /\ pc = "cleaned_twice" => ret[2] = ret[1]

(* a text whose two words are separated by a run of two whitespace *)
(* characters was cleaned twice                                     *)
C10_Witness ==
    /\ pc = "cleaned_twice"
    /\ arg # None
    /\ \E i \in 2..(Len(arg) - 2) :
          /\ arg[i] \in Whitespace /\ arg[i + 1] \in Whitespace
          /\ arg[i - 1] \notin Whitespace /\ arg[i + 2] \notin Whitespace
    /\ ret[1] # arg
    /\ Len(ret[1]) = 3

----------------------------------------------------------------------------
(* SpecParse: parse_door_type applied to a door-type cell text             *)

CodeTokens == {T_MD, T_FDM, S_FD1, T_md, D_000}
Annotations == {<<>>, <<T_1HR, S_FIRE, T_RATED>>, <<D_2100>>, <<T_SEE, S_DRAWING>>}
BareDimensions == {D_1250, D_1000}
BareVariants == {V_1, V_10S}

FirstLines == {<<c>> \o a : c \in CodeTokens, a \in Annotations}

LaterLines ==
    {<<d>> : d \in BareDimensions} \cup {<<v>> : v \in BareVariants}
        \cup {<<V_1, D_1250>>, <<V_10S, D_1000>>, <<D_1250, T_APPROX>>, <<V_21, T_MIN>>}

(* the lines of a cell: none, or a first line and up to MaxLines later lines *)
ParseInputs ==
    {<<>>} \cup {<<f>> \o r : f \in FirstLines, r \in SeqsUpTo(LaterLines, MaxLines)}

InitParse ==
    /\ pc = "cell"
    /\ arg \in ParseInputs
    /\ ret = <<>>
    /\ Idle

ParseDoorType ==
    /\ pc = "cell"
    /\ ret' = parse_door_type(JoinLines(arg))
    /\ pc' = "parsed"
    /\ UNCHANGED <<arg, pdf, page_num, table_idx, doors, all_doors>>

NextParse == ParseDoorType

SpecParse == InitParse /\ [][NextParse]_vars

(* the first line is a code token, alone or followed by annotation text *)
(* that is neither a dimension nor a header word                        *)
PlainFirstLine(first) ==
    /\ first[1] \in {T_MD, T_FDM, S_FD1}
    /\ Tail(first) \in {<<>>, <<T_1HR, S_FIRE, T_RATED>>}

EX_MD == <<"M", "D", "\n", "1", "2", "5", "0", "(", "W", ")", "x", "2", "2", "4",
           "0", "(", "H", ")", "\n", "1">>
EX_FDM == <<"F", "D", "M", "\n", "1">>
EX_FD1 == <<"F", "D", "1", " ", "1", "-", "H", "R", " ", "F", "I", "R", "E", " ",
            "R", "A", "T", "E", "D", "\n", "1", "0", "S", " ", "1", "0", "0", "0",
            "(", "W", ")", "x", "2", "1", "9", "0", "(", "H", ")">>

(* C3: for a cell whose first line starts with a code token, parse_door_type *)
(* returns (code/variant, dimension) when the later lines are a bare         *)
(* dimension and a bare variant in either order, (code/variant, "") when the *)
(* only later line is a bare variant, and (code/variant, dimension) when the *)
(* only later line is "variant dimension", also after a first line with      *)
(* trailing annotation text; the three examples of the docstring come out    *)
(* as written.                                                               *)
C3_ParseDoorTypeShapes ==
    pc = "parsed" /\ arg # <<>> =>
        LET first == arg[1]
            rest == Tail(arg)
        IN  /\ PlainFirstLine(first) =>
                /\ \A d \in BareDimensions, v \in BareVariants :
                      /\ rest \in {<< <<d>>, <<v>> >>, << <<v>>, <<d>> >>}
                            => ret = <<first[1] \o SLASH \o v, d>>
                      /\ rest = << <<v>> >>
                            => ret = <<first[1] \o SLASH \o v, <<>>>>
                /\ \A l \in {<<V_1, D_1250>>, <<V_10S, D_1000>>} :
                      rest = <<l>> => ret = <<first[1] \o SLASH \o l[1], l[2]>>
            /\ JoinLines(arg) = EX_MD
                  => ret = << <<"M", "D", "/", "1">>, D_1250 >>
            /\ JoinLines(arg) = EX_FDM
                  => ret = << <<"F", "D", "M", "/", "1">>, <<>> >>
            /\ JoinLines(arg) = EX_FD1
                  => ret = << <<"F", "D", "1", "/", "1", "0", "S">>, D_1000 >>

(* the annotated FD1 cell of the docstring was parsed *)
C3_Witness ==
    /\ pc = "parsed"
    /\ JoinLines(arg) = EX_FD1
    /\ ret[1] = <<"F", "D", "1", "/", "1", "0", "S">>

(* the part of a code before its first "/" *)
RECURSIVE BeforeSlash(_)
BeforeSlash(code) ==
    IF code = <<>> \/ Head(code) = "/" THEN <<>>
    ELSE <<Head(code)>> \o BeforeSlash(Tail(code))

(* C12: parse_door_type returns no code when the first token of the first *)
(* line holds no uppercase letter, when that token starts with 000(W), and *)
(* when the first line contains PRECINCT, DRAWING or PROJECT; in every     *)
(* other case it returns a code whose part before "/" is that first token. *)
C12_RejectsByFirstToken ==
    pc = "parsed" /\ arg # <<>> =>
        LET code == join(arg[1])
            first_token == arg[1][1]
            rejected ==
                \/ ~HasUpper(first_token)
                \/ startswith(first_token, S_000W)
                \/ Contains(code, S_PRECINCT)
                \/ Contains(code, S_DRAWING)
                \/ Contains(code, S_PROJECT)
        IN  IF rejected THEN ret[1] = None
            ELSE ret[1] # None /\ BeforeSlash(ret[1]) = first_token

----------------------------------------------------------------------------
(* SpecSplit: split_multi_door_column applied to a multi-door cell text    *)

SplitFirstLines ==
    {<<T_DB, T_DB>>, <<T_DB, T_DB, T_DB>>, <<T_DB>>, <<T_DB, S_FD1, T_DB>>,
     <<S_FD1, S_FD1>>, <<T_DB, S_FD1, S_FD1>>}

SplitLaterLines ==
    {<<D_900, D_1250>>, <<D_900>>, <<V_9, V_10>>, <<V_4A, V_9, V_10>>,
     <<V_9, D_900, V_10, V_1, D_000>>, <<V_21, T_MIN>>, <<D_000>>}

SplitInputs ==
    {<<f>> \o r : f \in SplitFirstLines, r \in SeqsUpTo(SplitLaterLines, MaxLines)}

FR_1HR == <<"1", "H", "R">>
DESC_STEEL == <<"S", "T", "E", "E", "L", " ", "D", "O", "O", "R">>
LOC_LOBBY == <<"L", "O", "B", "B", "Y">>
REM_NIL == <<"N", "I", "L">>

InitSplit ==
    /\ pc = "cell"
    /\ arg \in SplitInputs
    /\ ret = <<>>
    /\ Idle

SplitColumn ==
    /\ pc = "cell"
    /\ ret' = split_multi_door_column(JoinLines(arg), FR_1HR, DESC_STEEL,
                                      LOC_LOBBY, REM_NIL)
    /\ pc' = "split"
    /\ UNCHANGED <<arg, pdf, page_num, table_idx, doors, all_doors>>

NextSplit == SplitColumn

SpecSplit == InitSplit /\ [][NextSplit]_vars

RECURSIVE Flatten(_)
Flatten(seqs) == IF seqs = <<>> THEN <<>> ELSE Head(seqs) \o Flatten(Tail(seqs))

IsDimensionToken(tok) == tok \in {D_900, D_1000, D_1250, D_2100, D_000}

(* the dimension tokens of the whole cell, in order, each after the repair *)
DimensionOccurrences(lines) ==
    LET occ == SelectSeq(Flatten(lines), IsDimensionToken)
    IN  [i \in DOMAIN occ |-> RepairDimension(occ[i], Flatten(Tail(lines)))]

EX_DB == <<T_DB, T_DB>>

(* C4: on a cell of at least two lines whose first line holds the base code *)
(* n >= 2 times, split_multi_door_column returns exactly n records; record  *)
(* i is typed base_code/variant_i when an i-th variant was collected and    *)
(* base_code otherwise, carries the i-th dimension occurrence of the cell   *)
(* (repaired; empty when there are fewer) and the fire rating, description, *)
(* location and remarks passed in; DB twice with two dimension tokens gives *)
(* exactly two records with one dimension each.                             *)
C4_SplitYieldsOneRecordPerCode ==
    pc = "split" =>
        LET base_code == arg[1][1]
            n == ListCount(arg[1], base_code)
            dims == DimensionOccurrences(arg)
            lines == [i \in DOMAIN arg |-> join(arg[i])]
            variants == CollectVariants(lines, n)
        IN  /\ (Len(arg) >= 2 /\ n >= 2) =>
                /\ Len(ret) = n
                /\ \A i \in 1..n :
                      /\ ret[i].door_type =
                            IF i <= Len(variants)
                            THEN base_code \o SLASH \o variants[i]
                            ELSE base_code
                      /\ ret[i].dimensions = IF i <= Len(dims) THEN dims[i] ELSE <<>>
                      /\ ret[i].fire_rating = FR_1HR
                      /\ ret[i].description = DESC_STEEL
                      /\ ret[i].location = LOC_LOBBY
                      /\ ret[i].remarks = REM_NIL
            /\ (arg[1] = EX_DB /\ Len(dims) = 2) =>
                /\ Len(ret) = 2
                /\ ret[1].dimensions = dims[1] /\ ret[2].dimensions = dims[2]
                /\ IsDimOnly(ret[1].dimensions) /\ IsDimOnly(ret[2].dimensions)
            /\ arg = <<EX_DB, <<V_9, D_900, V_10, V_1, D_000>>>> =>
                /\ ret[1].door_type = <<"D", "B", "/", "9">>
                /\ ret[1].dimensions = D_900
                /\ ret[2].door_type = <<"D", "B", "/", "1", "0">>
                /\ ret[2].dimensions = D_1000

(* the DB DB cell of the docstring, with its split-off dimension, was split *)
C4_Witness ==
    /\ pc = "split"
    /\ arg = <<EX_DB, <<V_9, D_900, V_10, V_1, D_000>>>>
    /\ Len(ret) = 2
    /\ ret[2].dimensions = D_1000

(* a door_type of the legacy rule: FD1 or FD1/<variant> *)
IsLegacyType(door_type) ==
    \/ door_type = S_FD1
    \/ /\ startswith(door_type, S_FD1 \o SLASH)
       /\ Len(door_type) > Len(S_FD1) + 1

(* C11: whenever the raw text holds the two-token sequence FD1 FD1 and the  *)
(* main algorithm left no record (it never ran: the cell has fewer than two *)
(* lines or its base code is not repeated), split_multi_door_column returns *)
(* at least two records, each typed FD1 or FD1/<variant>.                   *)
C11_LegacyRuleEmitsRecords ==
    pc = "split" =>
        LET door_type_text == JoinLines(arg)
            main_ran == Len(arg) >= 2 /\ ListCount(arg[1], arg[1][1]) >= 2
        IN  (Contains(door_type_text, S_FD1_FD1) /\ ~main_ran) =>
                /\ Len(ret) >= 2
                /\ \A i \in DOMAIN ret : IsLegacyType(ret[i].door_type)

----------------------------------------------------------------------------
(* SpecTable: extract_doors_from_table on one table, then the validity     *)
(* filter of its callers                                                   *)

DigitSeq == <<"1", "2", "3", "4", "5", "6", "7", "8", "9">>
DigitOf(i) == DigitSeq[i]
NumberOf(c) == CHOOSE i \in DOMAIN DigitSeq : DigitSeq[i] = c

(* Layout tables: a column of labels; the door-type cells of row i name   *)
(* their row and column in the variant (MD/i1 in the first data column,   *)
(* DB/i2 and DB/i2A from the multi-door cell of the second), the cells of *)
(* any other row name theirs in the text ("ri cj" once cleaned).          *)
SingleCell(i) == T_MD \o NL \o <<DigitOf(i), "1">>
MultiCell(i) ==
    T_DB \o SP \o T_DB \o NL \o <<DigitOf(i), "2">> \o SP \o <<DigitOf(i), "2", "A">>
RawCell(i, c) == <<" ", "r", DigitOf(i), "\n", " ", "c", DigitOf(c), " ">>
CleanCell(i, c) == <<"r", DigitOf(i), " ", "c", DigitOf(c)>>

LayoutLabels ==
    {S_DOOR_TYPE, S_FIRE_RATING_DASH, S_FIRE_RATING, S_DESCRIPTION, S_LOCATION,
     S_ELEVATION, None}

LayoutShapes == {"full", "ragged", "holes"}

LayoutRow(i, label, shape) ==
    IF label = S_DOOR_TYPE THEN <<label, SingleCell(i), MultiCell(i)>>
    ELSE IF shape = "full" THEN <<label, RawCell(i, 1), RawCell(i, 2)>>
    ELSE IF shape = "ragged" THEN <<label, RawCell(i, 1)>>
    ELSE <<label, None, <<>>>>

LayoutTable(labels, shape) ==
    [i \in DOMAIN labels |-> LayoutRow(i, labels[i], shape)]

(* Cell tables: one section whose door-type row holds up to MaxCols cells *)
(* of the catalogue; the LOCATION row names the column ("Cj"), the        *)
(* REMARKS row is ragged.                                                 *)
EX_DB_CELL ==
    T_DB \o SP \o T_DB \o NL \o join(<<V_9, D_900, V_10, V_1, D_000>>)
CELL_TENDER == S_TENDER_DRAWING \o SP \o <<"N", "O", "T", "E", "S">>
CELL_TITLE == <<"N", "O", "T", "E", "S">> \o NL \o S_DRAWING_TITLE
CELL_APPROX == T_MD \o NL \o D_1250 \o SP \o T_APPROX
CELL_LOWER == T_md \o SP \o <<"A">> \o NL \o V_1
CELL_SCALE == <<"S", "C", "A", "L", "E">> \o NL \o V_1
CELL_REV == <<"R", "e", "v">> \o NL \o V_4A

DoorCells ==
    {EX_MD, S_FD1, D_1000, CELL_TENDER, CELL_TITLE, CELL_APPROX, CELL_LOWER,
     CELL_SCALE, CELL_REV, EX_DB_CELL, S_FD1_FD1, None, SP}

ColumnTag(c) == <<"C", DigitOf(c)>>

CellTable(cells) ==
    << <<S_DOOR_TYPE>> \o cells,
       <<S_LOCATION>> \o [c \in DOMAIN cells |-> ColumnTag(c)],
       <<S_REMARKS, REM_NIL>> >>

(* Merge tables: one section whose door-type row holds a cell followed by  *)
(* up to MaxCols further cells; the cell of data column c is a door typed  *)
(* by its column (MD/c), a dimension fragment whose width names its column *)
(* (c00), the fragment in whitespace, the fragment followed by a word, None *)
(* or empty; the LOCATION row names the column.                            *)
MergeDoor(c) == T_MD \o NL \o <<DigitOf(c)>>
Fragment(c) ==
    <<DigitOf(c), "0", "0", "(", "W", ")", "x", "2", "1", "9", "0", "(", "H", ")">>
PaddedFragment(c) == SP \o Fragment(c) \o NL
NearFragment(c) == Fragment(c) \o SP \o <<"A">>

MergeKinds == {"door", "fragment", "padded", "near", "none", "empty"}

MergeCell(kind, c) ==
    IF kind = "door" THEN MergeDoor(c)
    ELSE IF kind = "fragment" THEN Fragment(c)
    ELSE IF kind = "padded" THEN PaddedFragment(c)
    ELSE IF kind = "near" THEN NearFragment(c)
    ELSE IF kind = "none" THEN None
    ELSE Empty

MergeTable(kinds) ==
    << <<S_DOOR_TYPE>> \o [c \in DOMAIN kinds |-> MergeCell(kinds[c], c)],
       <<S_LOCATION>> \o [c \in DOMAIN kinds |-> ColumnTag(c)] >>

(* Tables with cells that are no str: one section of up to MaxCols data   *)
(* columns whose door-type cells are a door, a dimension fragment, a code  *)
(* that is rejected, empty or no str; the cell of column bad of the        *)
(* LOCATION row is no str (none when bad = 0).                             *)
NonTextCells == {S_FD1, D_1000, T_md, Empty, NonText}

NonTextTable(cells, bad) ==
    << <<S_DOOR_TYPE>> \o cells,
       <<S_LOCATION>> \o [c \in DOMAIN cells |-> IF c = bad THEN NonText ELSE ColumnTag(c)] >>

(* a layout table of 2 to MaxRows rows, a cell table of 1 to MaxCols data *)
(* columns, a merge table of 1 to MaxCols + 1 data columns, or a table of *)
(* 1 to MaxCols data columns with cells that are no str                  *)
InitTable ==
    /\ pc = "table"
    /\ \/ \E n \in 2..MaxRows : \E labels \in [1..n -> LayoutLabels] :
            \E shape \in LayoutShapes :
                arg = [family |-> "layout", table |-> LayoutTable(labels, shape)]
       \/ \E k \in 1..MaxCols : \E cells \in [1..k -> DoorCells] :
                arg = [family |-> "cells", table |-> CellTable(cells)]
       \/ \E k \in 1..(MaxCols + 1) : \E kinds \in [1..k -> MergeKinds] :
                arg = [family |-> "merge", table |-> MergeTable(kinds)]
       \/ \E k \in 1..MaxCols : \E cells \in [1..k -> NonTextCells] : \E bad \in 0..k :
                arg = [family |-> "nontext", table |-> NonTextTable(cells, bad)]
    /\ ret = <<>>
    /\ Idle

ExtractDoors ==
    /\ pc = "table"
    /\ ~Raises(arg.table)
    /\ ret' = extract_doors_from_table(arg.table)
    /\ pc' = "extracted"
    /\ UNCHANGED <<arg, pdf, page_num, table_idx, doors, all_doors>>

FilterDoors ==
    /\ pc = "extracted"
    /\ ret' = valid_doors(ret)
    /\ pc' = "filtered"
    /\ UNCHANGED <<arg, pdf, page_num, table_idx, doors, all_doors>>

(* extract_doors_from_table raises: no door comes back *)
ExtractRaises ==
    /\ pc = "table"
    /\ Raises(arg.table)
    /\ pc' = "raised"
    /\ UNCHANGED <<arg, ret, pdf, page_num, table_idx, doors, all_doors>>

NextTable == ExtractDoors \/ ExtractRaises \/ FilterDoors

SpecTable == InitTable /\ [][NextTable]_vars

IsLabelled(row, labels) == HasLabel(row) /\ strip(row[1]) \in labels

(* row j belongs to the section anchored at row a: at or after the anchor, *)
(* before the next DOOR TYPE row and before the first ELEVATION row        *)
InSection(table, a, j) ==
    /\ a <= j /\ j <= Len(table)
    /\ \A r \in (a + 1)..j : ~IsLabelled(table[r], {S_DOOR_TYPE})
    /\ \A r \in a..j : ~IsLabelled(table[r], {S_ELEVATION})

(* the row and the column a layout record comes from, read off its type *)
(* MD/ij or DB/ij, and the row a cleaned field text comes from          *)
AnchorOf(door) == NumberOf(door.door_type[4])
ColumnOf(door) == NumberOf(door.door_type[5])
RowOfText(text) == NumberOf(text[2])

FieldLabels ==
    [fire_rating |-> {S_FIRE_RATING_DASH, S_FIRE_RATING},
     description |-> {S_DESCRIPTION},
     location |-> {S_LOCATION},
     remarks |-> {S_REMARKS}]

FieldNames == DOMAIN FieldLabels

SectionRowIdx(sec, f) ==
    IF f = "fire_rating" THEN sec.fire_rating_row_idx
    ELSE IF f = "description" THEN sec.description_row_idx
    ELSE IF f = "location" THEN sec.location_row_idx
    ELSE sec.remarks_row_idx

(* C5: for every section anchored at a DOOR TYPE row, each resolved field *)
(* row lies at or after the anchor, strictly before the next DOOR TYPE    *)
(* row (or the table end) and strictly before the first ELEVATION row of  *)
(* the section; so no record takes a field value from a row of another    *)
(* section or from a row at or below ELEVATION.                           *)
C5_FieldRowsStayInSection ==
    LET table == arg.table
        indices == door_type_row_indices(table)
    IN  /\ pc = "table" =>
              \A k \in DOMAIN indices : \A f \in FieldNames :
                  LET idx == SectionRowIdx(Section(table, k), f)
                  IN  idx # 0 =>
                        /\ InSection(table, indices[k], idx)
                        /\ IsLabelled(table[idx], FieldLabels[f])
        /\ (pc = "extracted" /\ arg.family = "layout") =>
              \A n \in DOMAIN ret : \A f \in FieldNames :
                  ret[n][f] # <<>> =>
                        /\ InSection(table, AnchorOf(ret[n]), RowOfText(ret[n][f]))
                        /\ IsLabelled(table[RowOfText(ret[n][f])], FieldLabels[f])

(* a section with a fire-rating row above its ELEVATION row and a further *)
(* fire-rating row below it: the records took the fire rating of the row  *)
(* above ELEVATION                                                        *)
C5_Witness ==
    /\ pc = "extracted"
    /\ arg.family = "layout"
    /\ Len(arg.table) = 4
    /\ IsLabelled(arg.table[1], {S_DOOR_TYPE})
    /\ IsLabelled(arg.table[2], {S_FIRE_RATING})
    /\ IsLabelled(arg.table[3], {S_ELEVATION})
    /\ IsLabelled(arg.table[4], {S_FIRE_RATING_DASH})
    /\ Len(ret) = 3
    /\ ret[1].fire_rating = CleanCell(2, 1)

(* the field text a layout record of row a, column c must carry: that of  *)
(* the last row of its section labelled for the field, empty when there   *)
(* is no such row, when the row is too short or when the cell is empty    *)
ExpectedField(table, a, c, f) ==
    LET rows == {j \in a..Len(table) :
                    InSection(table, a, j) /\ IsLabelled(table[j], FieldLabels[f])}
        j == CHOOSE r \in rows : \A q \in rows : q <= r
    IN  IF rows = {} THEN <<>>
        ELSE IF c + 1 > Len(table[j]) THEN <<>>
        ELSE IF table[j][c + 1] \in {None, <<>>} THEN <<>>
        ELSE CleanCell(j, c)

(* C9: when a section has no row for a field, or the row is shorter than  *)
(* the door-type row, or the cell at the column is empty, every record of *)
(* the column has the empty string for the field, and the column and the  *)
(* remaining columns are still extracted; otherwise the field is the      *)
(* cleaned text of the cell at the same column of the resolved row.       *)
C9_MissingFieldIsEmpty ==
    (pc = "extracted" /\ arg.family = "layout") =>
        LET table == arg.table
            indices == door_type_row_indices(table)
        IN  /\ Len(ret) = 3 * Len(indices)
            /\ \A k \in DOMAIN indices :
                  /\ ret[3 * k - 2].door_type = T_MD \o SLASH \o <<DigitOf(indices[k]), "1">>
                  /\ ret[3 * k - 1].door_type = T_DB \o SLASH \o <<DigitOf(indices[k]), "2">>
                  /\ ret[3 * k].door_type = T_DB \o SLASH \o <<DigitOf(indices[k]), "2", "A">>
            /\ \A n \in DOMAIN ret : \A f \in FieldNames :
                  ret[n][f] = ExpectedField(table, AnchorOf(ret[n]), ColumnOf(ret[n]), f)

(* a ragged table: the fire-rating row stops before the second column, *)
(* whose two records have no fire rating while the first column has one, *)
(* and no section has a remarks row                                     *)
C9_Witness ==
    /\ pc = "extracted"
    /\ arg.family = "layout"
    /\ Len(arg.table) = 2
    /\ IsLabelled(arg.table[2], {S_FIRE_RATING_DASH})
    /\ Len(arg.table[2]) = 2
    /\ Len(ret) = 3
    /\ ret[1].fire_rating = CleanCell(2, 1)
    /\ ret[2].fire_rating = <<>>
    /\ ret[3].fire_rating = <<>>
    /\ ret[1].remarks = <<>>

IsDrawingMetadata(cell) ==
    cell # None /\ (Contains(cell, S_TENDER_DRAWING) \/ Contains(cell, S_DRAWING_TITLE))

(* C6: a data column whose door-type cell contains TENDER DRAWING or       *)
(* DRAWING TITLE never yields a record, whatever its neighbours hold: no   *)
(* record of the table, before or after the validity filter, carries the   *)
(* location of such a column.                                              *)
C6_DrawingMetadataYieldsNoRecord ==
    (pc \in {"extracted", "filtered"} /\ arg.family = "cells") =>
        LET door_type_row == arg.table[1]
        IN  \A c \in 2..Len(door_type_row) :
                IsDrawingMetadata(door_type_row[c]) =>
                    \A n \in DOMAIN ret : ret[n].location # ColumnTag(c - 1)

(* a metadata cell whose first line is not metadata, with a dimension-only *)
(* cell to its right and a door to its left; only the door is in the      *)
(* filtered result                                                        *)
C6_Witness ==
    /\ pc = "filtered"
    /\ arg.family = "cells"
    /\ Len(arg.table[1]) = 4
    /\ arg.table[1][2] = S_FD1
    /\ arg.table[1][3] = CELL_TITLE
    /\ arg.table[1][4] = D_1000
    /\ Len(ret) = 1
    /\ ret[1].location = ColumnTag(1)

(* C1: every record that survives the validity filter has dimensions that *)
(* are empty or exactly digits(W)xdigits(H).                              *)
C1_DimensionsShape ==
    pc = "filtered" =>
        \A n \in DOMAIN ret :
            ret[n].dimensions = <<>> \/ IsDimOnly(ret[n].dimensions)

(* C14: every data column of the door-type row whose cell is non-empty, is *)
(* no drawing metadata and for which parse_door_type, after the            *)
(* continuation merge, returns a code contributes at least one candidate   *)
(* record to the result of extract_doors_from_table.                       *)
C14_ParseableColumnContributes ==
    (pc = "extracted" /\ arg.family = "cells") =>
        LET door_type_row == arg.table[1]
        IN  \A c \in 2..Len(door_type_row) :
                (/\ ~Falsy(door_type_row[c])
                 /\ strip(door_type_row[c]) # <<>>
                 /\ ~IsDrawingMetadata(door_type_row[c])
                 /\ ~Falsy(parse_door_type(MergeContinuation(door_type_row, c))[1]))
                    => \E n \in DOMAIN ret : ret[n].location = ColumnTag(c - 1)

(* the trimmed cell is solely one dimension token *)
IsDimensionOnlyCell(cell) == ~Falsy(cell) /\ IsDimOnly(strip(cell))

(* C15: a data column whose door-type cell, trimmed, is solely one          *)
(* dimension token yields no accepted record, whatever the cells to its     *)
(* right hold: every candidate extract_doors_from_table produced for the    *)
(* column is rejected by is_valid_door_entry, and no record of the filtered *)
(* result comes from the column.                                            *)
C15_DimensionOnlyCellYieldsNoDoor ==
    (pc \in {"extracted", "filtered"} /\ arg.family \in {"cells", "merge"}) =>
        LET door_type_row == arg.table[1]
        IN  \A c \in 2..Len(door_type_row) :
                IsDimensionOnlyCell(door_type_row[c]) =>
                    \A n \in DOMAIN ret :
                        ret[n].location = ColumnTag(c - 1) =>
                            /\ pc = "extracted"
                            /\ ~is_valid_door_entry(ret[n])

(* a fragment cell that was appended to the door on its left and, with no  *)
(* fragment on its own right, produced a candidate of its own: the         *)
(* filtered result holds the door alone                                    *)
C15_Witness ==
    /\ pc = "filtered"
    /\ arg.family = "merge"
    /\ arg.table[1] = <<S_DOOR_TYPE, MergeDoor(1), Fragment(2), MergeDoor(3)>>
    /\ Len(ret) = 2
    /\ ret[1].door_type = T_MD \o SLASH \o <<"1">>
    /\ ret[1].dimensions = Fragment(2)
    /\ ret[2].door_type = T_MD \o SLASH \o <<"3">>

(* the records of ret typed door_type *)
RecordsTyped(door_type) == {n \in DOMAIN ret : ret[n].door_type = door_type}

(* C13: the door cell of data column c yields exactly one record MD/c; its *)
(* dimensions are the fragment of column c+1 when that cell, trimmed, is a  *)
(* whole dimension token, else the fragment of column c+2 when that one is, *)
(* else empty: one fragment at most is appended, a fragment at c+3 or       *)
(* beyond never is, and a non-matching neighbourhood leaves the cell text   *)
(* as it was.  The row is not modified: a fragment cell with no fragment in *)
(* its own two next columns is still processed as its own column, whether   *)
(* or not it was appended to a column on its left.                          *)
C13_MergeLooksAheadTwoColumns ==
    (pc = "extracted" /\ arg.family = "merge") =>
        LET row == arg.table[1]
            n == Len(row) - 1
            IsFragment(j) == j <= n /\ row[j + 1] \in {Fragment(j), PaddedFragment(j)}
            Appended(c) ==
                IF IsFragment(c + 1) THEN Fragment(c + 1)
                ELSE IF IsFragment(c + 2) THEN Fragment(c + 2)
                ELSE <<>>
        IN  \A c \in 1..n :
                /\ row[c + 1] = MergeDoor(c) =>
                      /\ Cardinality(RecordsTyped(T_MD \o SLASH \o <<DigitOf(c)>>)) = 1
                      /\ \A i \in RecordsTyped(T_MD \o SLASH \o <<DigitOf(c)>>) :
                            /\ ret[i].dimensions = Appended(c)
                            /\ ret[i].location = ColumnTag(c)
                /\ (row[c + 1] = Fragment(c) /\ ~IsFragment(c + 1) /\ ~IsFragment(c + 2)) =>
                      \E i \in RecordsTyped(Fragment(c)) : ret[i].location = ColumnTag(c)

(* a door followed by a cell that is no fragment and by fragments at c+2   *)
(* and c+3: the record carries the fragment of c+2, and the fragment cell  *)
(* of c+3 was processed as its own column                                  *)
C13_Witness ==
    /\ pc = "extracted"
    /\ arg.family = "merge"
    /\ arg.table[1] = <<S_DOOR_TYPE, MergeDoor(1), NearFragment(2), Fragment(3),
                        PaddedFragment(4)>>
    /\ \E i \in DOMAIN ret :
          /\ ret[i].door_type = T_MD \o SLASH \o <<"1">>
          /\ ret[i].dimensions = Fragment(3)

----------------------------------------------------------------------------
(* Spec: a run over the pages of a PDF, by main (extract_json.py) with     *)
(* process_page, or by extract_from_pdf (app.py).  pdf is the sequence of  *)
(* pages; a page holds the list extract_tables() returns for it, or raises *)
(* when extract_tables() is called.  A PDF has at most MaxPages pages and  *)
(* at most MaxTables tables.  arg is the entry point.                      *)

(* two sections, a multi-door column, and two candidates the filter rejects *)
TABLE_SECTIONS ==
    << <<S_DOOR_TYPE, SingleCell(1), MultiCell(1), CELL_SCALE>>,
       <<S_FIRE_RATING_DASH, RawCell(2, 1), RawCell(2, 2), RawCell(2, 3)>>,
       <<S_DOOR_TYPE, SingleCell(3), CELL_LOWER, MultiCell(3)>>,
       <<S_LOCATION, RawCell(4, 1), RawCell(4, 2), RawCell(4, 3)>> >>

(* one door and one rejected candidate; the label leaked into the field *)
TABLE_ONE_DOOR ==
    << <<S_DOOR_TYPE, EX_FDM, CELL_REV>>,
       <<S_FIRE_RATING_DASH, S_FIRE_RATING_DASH \o SP \o FR_1HR, FR_1HR>> >>

(* a door, then a label cell that is no text: the scan of the labels raises *)
TABLE_RAISES ==
    << <<S_DOOR_TYPE, EX_MD>>,
       <<NonText, FR_1HR>> >>

TableCatalog == {TABLE_SECTIONS, TABLE_ONE_DOOR, TABLE_RAISES}

(* the pages extract_tables() returns k tables for *)
PagesOf(k) == {[raises |-> FALSE, tables |-> t] : t \in [1..k -> TableCatalog]}

(* a page extract_tables() raises for *)
RaisingPage == [raises |-> TRUE, tables |-> <<>>]

(* the PDFs of at most max_pages pages that hold at most max_tables tables *)
RECURSIVE PdfsWithin(_, _)
PdfsWithin(max_pages, max_tables) ==
    IF max_pages = 0 THEN {<<>>}
    ELSE {<<>>} \cup
         UNION {{<<page>> \o rest :
                    page \in PagesOf(k) \cup (IF k = 0 THEN {RaisingPage} ELSE {}),
                    rest \in PdfsWithin(max_pages - 1, max_tables - k)} :
                k \in 0..max_tables}

Pdfs == PdfsWithin(MaxPages, MaxTables)

(* the tables of the page being processed *)
tables == pdf[page_num].tables

(* valid_doors(extract_doors_from_table(table)) of the tables of the *)
(* catalogue that do not raise                                         *)
TableDoors ==
    [table \in {t \in TableCatalog : ~Raises(t)} |->
        valid_doors(extract_doors_from_table(table))]

Init ==
    /\ pc = "page"
    /\ arg \in {"main", "extract_from_pdf"}
    /\ pdf \in Pdfs
    /\ page_num = 1
    /\ table_idx = 0
    /\ doors = <<>>
    /\ all_doors = <<>>
    /\ ret = <<>>

(* page.extract_tables() raises: the page adds nothing *)
ExtractTablesRaises ==
    /\ pc = "page"
    /\ page_num <= Len(pdf)
    /\ pdf[page_num].raises
    /\ page_num' = page_num + 1
    /\ UNCHANGED <<pc, arg, ret, pdf, table_idx, doors, all_doors>>

(* if not tables: the page adds nothing *)
NoTables ==
    /\ pc = "page"
    /\ page_num <= Len(pdf)
    /\ ~pdf[page_num].raises
    /\ tables = <<>>
    /\ page_num' = page_num + 1
    /\ UNCHANGED <<pc, arg, ret, pdf, table_idx, doors, all_doors>>

(* the loop over the tables of the page starts *)
EnterPage ==
    /\ pc = "page"
    /\ page_num <= Len(pdf)
    /\ ~pdf[page_num].raises
    /\ tables # <<>>
    /\ pc' = "tables"
    /\ table_idx' = 1
    /\ doors' = <<>>
    /\ UNCHANGED <<arg, ret, pdf, page_num, all_doors>>

(* one pass of the loop: the valid doors of the table are appended, to *)
(* the page's doors in process_page, to all_doors in extract_from_pdf   *)
ProcessTable ==
    /\ pc = "tables"
    /\ table_idx <= Len(tables)
    /\ ~Raises(tables[table_idx])
    /\ IF arg = "main"
       THEN /\ doors' = extend(doors, TableDoors[tables[table_idx]])
            /\ UNCHANGED all_doors
       ELSE /\ all_doors' = extend(all_doors, TableDoors[tables[table_idx]])
            /\ UNCHANGED doors
    /\ table_idx' = table_idx + 1
    /\ UNCHANGED <<pc, arg, ret, pdf, page_num>>

(* extract_doors_from_table raises: the except clause ends the page;  *)
(* process_page returns the doors it has, which main appends           *)
TableRaises ==
    /\ pc = "tables"
    /\ table_idx <= Len(tables)
    /\ Raises(tables[table_idx])
    /\ all_doors' = IF arg = "main" THEN extend(all_doors, doors) ELSE all_doors
    /\ doors' = <<>>
    /\ page_num' = page_num + 1
    /\ pc' = "page"
    /\ UNCHANGED <<arg, ret, pdf, table_idx>>

(* the loop over the tables ends; main appends the doors of the page *)
EndPage ==
    /\ pc = "tables"
    /\ table_idx > Len(tables)
    /\ all_doors' = IF arg = "main" THEN extend(all_doors, doors) ELSE all_doors
    /\ doors' = <<>>
    /\ page_num' = page_num + 1
    /\ pc' = "page"
    /\ UNCHANGED <<arg, ret, pdf, table_idx>>

(* the loop over the pages ends *)
EndPages ==
    /\ pc = "page"
    /\ page_num > Len(pdf)
    /\ pc' = "post"
    /\ UNCHANGED <<arg, ret, pdf, page_num, table_idx, doors, all_doors>>

(* the post-processing loop over all_doors *)
PostProcess ==
    /\ pc = "post"
    /\ all_doors' = [i \in DOMAIN all_doors |-> post_process(arg, all_doors[i])]
    /\ pc' = "done"
    /\ UNCHANGED <<arg, ret, pdf, page_num, table_idx, doors>>

Next ==
    \/ ExtractTablesRaises
    \/ NoTables
    \/ EnterPage
    \/ ProcessTable
    \/ TableRaises
    \/ EndPage
    \/ EndPages
    \/ PostProcess

Spec == Init /\ [][Next]_vars

(* the result of the run so far: all_doors, then the doors process_page *)
(* holds for the page in progress                                        *)
Result == all_doors \o doors

IsPrefix(a, b) == Len(a) <= Len(b) /\ SubSeq(b, 1, Len(a)) = a

DoorTypes(seq) == [i \in DOMAIN seq |-> seq[i].door_type]

(* C2: every record appended to the result of a page or of the run has a  *)
(* door type with an uppercase letter and, compared case-insensitively,   *)
(* none of the metadata markers; no candidate reaches the result without  *)
(* passing is_valid_door_entry.                                           *)
C2_ResultHoldsOnlyValidDoors ==
    \A n \in DOMAIN Result :
        /\ HasUpper(Result[n].door_type)
        /\ \A k \in DOMAIN invalid_patterns :
              ~Contains(upper(Result[n].door_type), invalid_patterns[k])
        /\ is_valid_door_entry(Result[n])

(* the table whose candidates SCALE/1 and md/1 are rejected was processed: *)
(* six of its eight candidates are the result                              *)
C2_Witness ==
    /\ pc = "post"
    /\ Len(pdf) = 1
    /\ pdf[1].tables = <<TABLE_SECTIONS>>
    /\ Len(extract_doors_from_table(TABLE_SECTIONS)) = 8
    /\ Len(all_doors) = 6

(* the door types of each table of the catalogue, in section order, then *)
(* column order, then split order                                        *)
TypesOf(table) ==
    IF table = TABLE_SECTIONS
    THEN << <<"M", "D", "/", "1", "1">>,
            <<"D", "B", "/", "1", "2">>, <<"D", "B", "/", "1", "2", "A">>,
            <<"M", "D", "/", "3", "1">>,
            <<"D", "B", "/", "3", "2">>, <<"D", "B", "/", "3", "2", "A">> >>
    ELSE IF table = TABLE_ONE_DOOR
    THEN << <<"F", "D", "M", "/", "1">> >>
    ELSE <<>>

(* the door types of the tables of a page up to its first raising table *)
RECURSIVE ProcessedTypes(_)
ProcessedTypes(page_tables) ==
    IF page_tables = <<>> \/ Raises(Head(page_tables)) THEN <<>>
    ELSE TypesOf(Head(page_tables)) \o ProcessedTypes(Tail(page_tables))

RECURSIVE ExpectedTypes(_)
ExpectedTypes(pages) ==
    IF pages = <<>> THEN <<>>
    ELSE ProcessedTypes(Head(pages).tables) \o ExpectedTypes(Tail(pages))

(* a step of the extraction keeps what the result holds, in place *)
AppendOnlyStep ==
    pc \in {"page", "tables"} =>
        (IsPrefix(Result, Result') /\ IsPrefix(all_doors, all_doors'))

(* C8: the result is append-only during extraction, the result before a  *)
(* table or a page is processed being a prefix of the result after it,   *)
(* and the final order is page order, then table order, then section     *)
(* order, then column order, then split order.                           *)
C8_AppendOnlyInOrder ==
    /\ [][AppendOnlyStep]_vars
    /\ [](pc = "post" => DoorTypes(all_doors) = ExpectedTypes(pdf))

(* two pages were processed: the one-door table, then the two-section *)
(* table after it on the second page                                   *)
C8_Witness ==
    /\ pc = "post"
    /\ Len(pdf) = 2
    /\ pdf[1].tables = <<TABLE_ONE_DOOR>>
    /\ pdf[2].tables = <<TABLE_SECTIONS, TABLE_ONE_DOOR>>
    /\ Len(all_doors) = 8
    /\ all_doors[1].door_type = <<"F", "D", "M", "/", "1">>
    /\ all_doors[8].door_type = <<"F", "D", "M", "/", "1">>

(* the valid doors of every table that does not raise, of every page whose *)
(* extract_tables() does not raise                                         *)
RECURSIVE IsolatedTables(_)
IsolatedTables(page_tables) ==
    IF page_tables = <<>> THEN <<>>
    ELSE (IF Raises(Head(page_tables)) THEN <<>> ELSE TableDoors[Head(page_tables)])
            \o IsolatedTables(Tail(page_tables))

RECURSIVE IsolatedPages(_)
IsolatedPages(pages) ==
    IF pages = <<>> THEN <<>>
    ELSE IsolatedTables(Head(pages).tables) \o IsolatedPages(Tail(pages))

(* C7: an exception raised while one table of a page is processed aborts  *)
(* neither the remaining tables of the page nor the remaining pages:      *)
(* every later table and page is processed and its valid records are      *)
(* appended, and the failed table contributes nothing.                    *)
C7_TableFailureIsIsolated ==
    pc = "post" => all_doors = IsolatedPages(pdf)

====
